---- MODULE Spec2Model ----
(***************************************************************************)
(* Model of car_scraper.py: the fetcher (BlocketCarScraper), the publisher *)
(* (CarDataKafkaProducer) and the driver (main).                            *)
(*                                                                          *)
(* Python values: an optional number is <<>> for None and <<n>> for the     *)
(* number n, so that truthiness (None and 0 are falsy) and "is not None"    *)
(* are different tests.  Exceptions are modelled by their class as far as   *)
(* the except clauses tell them apart: "KafkaError" (the log client's own   *)
(* error type and its subclasses) and "OtherError" (every other Exception). *)
(***************************************************************************)
EXTENDS Integers, Sequences, FiniteSets, TLC

VARIABLES
    \* ---- driver (main) and publisher (CarDataKafkaProducer) ----
    pc,             \* position of main
    attempt,        \* _connect: connection attempts made so far
    connect_raised, \* "none" or the exception _connect raised to its caller
    producer,       \* self.producer: "None" or "client"
    kafka_producer, \* main's kafka_producer: "unset", "obj" or "None"
    slept,          \* every time.sleep(d) made so far, in order
    idx,            \* 1-based index of the search profile being processed
    processed,      \* indices of the profiles whose loop body completed
    listings,       \* main's listings: the result of the current search
    all_listings,   \* main's all_listings
    i,              \* send_batch: 1-based position of the next record
    success_count,  \* send_batch: success_count
    sent,           \* keys handed to producer.send in the current batch
    returns,        \* what each send_listing of the current batch returned
    last_outcome,   \* what the log client did in the last send_listing
    last_return,    \* "none", "True", "False" or "raised"
    batch_result,   \* <<>> or <<n>>: value returned by the last send_batch
    flushes,        \* producer.flush() calls in the current batch
    client_calls,   \* every call made on a log client in the run, in order
    logged,         \* dry run: per non-empty batch, the records logged
    avg_price,      \* <<>> or <<sum, count>>: the quotient sum / count
    year_range,     \* <<>> or <<min, max>>
    uncaught,       \* "none" or the exception that terminated main
    \* ---- fetcher (BlocketCarScraper) ----
    f_pc,           \* position of search_cars / get_ad_details
    api_ok,         \* whether api.search_car returns (TRUE) or raises
    results,        \* the raw ads the source returns
    max_results,    \* the max_results argument
    f_idx,          \* enumerate index (0-based) of the next raw ad
    f_listings,     \* search_cars' listings
    f_ret,          \* <<>> or <<list>>: value returned by search_cars
    f_errors,       \* number of logger.error calls of the fetcher
    d_ad,           \* raw ad handed to _parse_ad_details
    d_ret           \* <<>> or <<record>>: value returned by get_ad_details

drv_vars == <<pc, attempt, connect_raised, producer, kafka_producer, slept, idx, processed,
              listings, all_listings, i, success_count, sent, returns,
              last_outcome, last_return, batch_result, flushes, client_calls,
              logged, avg_price, year_range, uncaught>>

fetch_vars == <<f_pc, api_ok, results, max_results, f_idx, f_listings, f_ret,
                f_errors, d_ad, d_ret>>

vars == <<drv_vars, fetch_vars>>

----------------------------------------------------------------------------
(* Bounds of the model *)

\* longest batch a search hands to the driver
MaxBatch == 4
\* longest all_listings the statistics are computed over in SpecStats
MaxStatRecords == 3
\* most raw ads in an enumerated source answer, and the largest enumerated
\* max_results
MaxAds == 3
\* length of the long source answer (the 70-ad scenario)
ScenarioAds == 70

----------------------------------------------------------------------------
(* Python values *)

None == <<>>

Some(n) == <<n>>

\* bool(v) of an Optional[int]: None and 0 are falsy
Truthy(v) == v # None /\ v[1] # 0

Min2(a, b) == IF a <= b THEN a ELSE b

RECURSIVE SumPrices(_)
SumPrices(s) == IF s = <<>> THEN 0 ELSE Head(s).price[1] + SumPrices(Tail(s))

RECURSIVE MinYear(_)
MinYear(s) ==
    IF Len(s) = 1 THEN s[1] ELSE Min2(s[1], MinYear(Tail(s)))

RECURSIVE MaxYear(_)
MaxYear(s) ==
    IF Len(s) = 1 THEN s[1]
    ELSE IF s[1] >= MaxYear(Tail(s)) THEN s[1] ELSE MaxYear(Tail(s))

RECURSIVE Count(_, _)
Count(s, v) == IF s = <<>> THEN 0
               ELSE (IF Head(s) = v THEN 1 ELSE 0) + Count(Tail(s), v)

----------------------------------------------------------------------------
(* Driver and publisher: constants of the code *)

\* _connect: max_retries
max_retries == 3
\* _connect: time.sleep(5) between attempts
ConnectDelay == 5
\* main: time.sleep(2) after each profile
PaceDelay == 2
\* main: listings[:3], the dry-run sample
PreviewLen == 3
\* main: len(search_configs)
NumProfiles == 3

\* what the KafkaProducer constructor can do
ConnectOutcomes == {"ok", "KafkaError", "OtherError"}

\* what the log client can do in one send_listing: acknowledge, or fail in
\* producer.send or in future.get, with its own error type or another one
SendOutcomes == {"ok", "send_KafkaError", "ack_KafkaError",
                 "send_OtherError", "ack_OtherError"}

\* a record as main reads it: listing_id, price, year
Listing(id, price, year) == [listing_id |-> id, price |-> price, year |-> year]

\* the batches a search may hand to the driver for profile p: n records with
\* distinct ids, all of them with a price and a year or none of them
Batch(p, n, priced) ==
    [j \in 1..n |-> Listing(ToString(100 * p + j),
                            IF priced THEN Some(50000 * j) ELSE None,
                            IF priced THEN Some(2000 + j) ELSE None)]

Batches(p) == {Batch(p, n, priced) : n \in 0..MaxBatch, priced \in BOOLEAN}

\* _connect, "except KafkaError": only the log client's error type is retried
ConnectCaught(outcome) == outcome = "KafkaError"

\* a retry loop that gives up one attempt early
RetryAfterEarly(a) == a < max_retries - 2

\* _connect, "if attempt < max_retries - 1": a (0-based attempt) sleeps and
\* retries, otherwise re-raises
RetryAfter(a) == a < max_retries - 1

\* send_listing, "except KafkaError": the failures turned into False
SendCaught(outcome) == outcome \in {"send_KafkaError", "ack_KafkaError"}

\* a dry run that logs the whole batch
PreviewAll(ls) == ls

\* main, listings[:3]
Preview(ls) == SubSeq(ls, 1, Min2(PreviewLen, Len(ls)))

HasPrice(l) == Truthy(l.price)

\* main, [l for l in all_listings if l.get('price')]
PricedListings(ls) == SelectSeq(ls, HasPrice)

RECURSIVE Years(_)
\* main, [l['year'] for l in all_listings if l.get('year')]
Years(ls) ==
    IF ls = <<>> THEN <<>>
    ELSE (IF Truthy(Head(ls).year) THEN <<Head(ls).year[1]>> ELSE <<>>)
         \o Years(Tail(ls))

----------------------------------------------------------------------------
(* Driver and publisher: actions *)

DriverInit ==
    /\ pc = "connect"
    /\ attempt = 0
    /\ connect_raised = "none"
    /\ producer = "None"
    /\ kafka_producer = "unset"
    /\ slept = <<>>
    /\ idx = 1
    /\ processed = <<>>
    /\ listings = <<>>
    /\ all_listings = <<>>
    /\ i = 0
    /\ success_count = 0
    /\ sent = <<>>
    /\ returns = <<>>
    /\ last_outcome = "none"
    /\ last_return = "none"
    /\ batch_result = None
    /\ flushes = 0
    /\ client_calls = <<>>
    /\ logged = <<>>
    /\ avg_price = None
    /\ year_range = None
    /\ uncaught = "none"

\* CarDataKafkaProducer.__init__ / _connect: one iteration of the retry loop,
\* and main's try/except around the construction
ConnectAttempt(outcome) ==
    /\ pc = "connect"
    /\ attempt < max_retries
    /\ attempt' = attempt + 1
    /\ IF outcome = "ok"
       THEN /\ producer' = "client"
            /\ kafka_producer' = "obj"
            /\ pc' = "search"
            /\ UNCHANGED <<slept, connect_raised>>
       ELSE IF ConnectCaught(outcome) /\ RetryAfter(attempt)
       THEN /\ slept' = Append(slept, ConnectDelay)
            /\ UNCHANGED <<producer, kafka_producer, pc, connect_raised>>
       ELSE /\ connect_raised' = outcome
            /\ kafka_producer' = "None"
            /\ pc' = "search"
            /\ UNCHANGED <<slept, producer>>
    /\ UNCHANGED <<idx, processed, listings, all_listings, i, success_count,
                   sent, returns, last_outcome, last_return, batch_result,
                   flushes, client_calls, logged, avg_price, year_range,
                   uncaught>>

\* main: scraper.search_cars(...) for the profile idx, then "if listings:"
Search(batch) ==
    /\ pc = "search"
    /\ listings' = batch
    /\ IF batch # <<>>
       THEN /\ all_listings' = all_listings \o batch
            /\ pc' = "publish"
       ELSE /\ pc' = "pace"
            /\ UNCHANGED all_listings
    /\ UNCHANGED <<attempt, connect_raised, producer, kafka_producer, slept,
                   idx, processed, i, success_count, sent, returns,
                   last_outcome, last_return, batch_result, flushes,
                   client_calls, logged, avg_price, year_range, uncaught>>

\* main: the else branch of "if kafka_producer:", the dry-run sample
DryRun ==
    /\ pc = "publish"
    /\ kafka_producer = "None"
    /\ logged' = Append(logged, Preview(listings))
    /\ pc' = "pace"
    /\ UNCHANGED <<attempt, connect_raised, producer, kafka_producer, slept,
                   idx, processed, listings, all_listings, i, success_count,
                   sent, returns, last_outcome, last_return, batch_result,
                   flushes, client_calls, avg_price, year_range, uncaught>>

\* send_batch: entry, success_count = 0
SendBatchEnter ==
    /\ pc = "publish"
    /\ kafka_producer = "obj"
    /\ success_count' = 0
    /\ i' = 1
    /\ sent' = <<>>
    /\ returns' = <<>>
    /\ flushes' = 0
    /\ batch_result' = None
    /\ pc' = "send"
    /\ UNCHANGED <<attempt, connect_raised, producer, kafka_producer, slept,
                   idx, processed, listings, all_listings, last_outcome,
                   last_return, client_calls, logged, avg_price, year_range,
                   uncaught>>

\* send_batch: one iteration of "for listing in listings", the whole of
\* send_listing; an exception send_listing does not catch passes through
\* send_batch and main, which have no handler
SendListing(outcome) ==
    /\ pc = "send"
    /\ i <= Len(listings)
    /\ sent' = Append(sent, listings[i].listing_id)
    /\ client_calls' = Append(client_calls, "send")
    /\ last_outcome' = outcome
    /\ IF outcome = "ok"
       THEN /\ last_return' = "True"
            /\ returns' = Append(returns, TRUE)
            /\ success_count' = success_count + 1
            /\ i' = i + 1
            /\ UNCHANGED <<pc, uncaught>>
       ELSE IF SendCaught(outcome)
       THEN /\ last_return' = "False"
            /\ returns' = Append(returns, FALSE)
            /\ i' = i + 1
            /\ UNCHANGED <<pc, uncaught, success_count>>
       ELSE /\ last_return' = "raised"
            /\ uncaught' = "OtherError"
            /\ pc' = "crashed"
            /\ UNCHANGED <<returns, success_count, i>>
    /\ UNCHANGED <<attempt, connect_raised, producer, kafka_producer, slept,
                   idx, processed, listings, all_listings, batch_result,
                   flushes, logged, avg_price, year_range>>

\* send_batch: after the loop, producer.flush() and return success_count
Flush ==
    /\ pc = "send"
    /\ i > Len(listings)
    /\ flushes' = flushes + 1
    /\ client_calls' = Append(client_calls, "flush")
    /\ batch_result' = Some(success_count)
    /\ pc' = "pace"
    /\ UNCHANGED <<attempt, connect_raised, producer, kafka_producer, slept,
                   idx, processed, listings, all_listings, i, success_count,
                   sent, returns, last_outcome, last_return, logged,
                   avg_price, year_range, uncaught>>

\* main: time.sleep(2), the end of the loop body; what was observed of the
\* batch just published (the frame of send_batch) is dropped here
Pace ==
    /\ pc = "pace"
    /\ slept' = Append(slept, PaceDelay)
    /\ processed' = Append(processed, idx)
    /\ idx' = idx + 1
    /\ pc' = IF idx = NumProfiles THEN "stats" ELSE "search"
    /\ i' = 0
    /\ success_count' = 0
    /\ sent' = <<>>
    /\ returns' = <<>>
    /\ last_outcome' = "none"
    /\ last_return' = "none"
    /\ batch_result' = None
    /\ flushes' = 0
    /\ UNCHANGED <<attempt, connect_raised, producer, kafka_producer,
                   listings, all_listings, client_calls, logged, avg_price,
                   year_range, uncaught>>

\* main: "if all_listings:" and the statistics; the division raises
\* ZeroDivisionError when no record has a truthy price
Statistics ==
    /\ pc = "stats"
    /\ IF all_listings = <<>>
       THEN /\ pc' = "cleanup"
            /\ UNCHANGED <<avg_price, year_range, uncaught>>
       ELSE IF Len(PricedListings(all_listings)) = 0
       THEN /\ uncaught' = "ZeroDivisionError"
            /\ pc' = "crashed"
            /\ UNCHANGED <<avg_price, year_range>>
       ELSE /\ avg_price' = <<SumPrices(PricedListings(all_listings)),
                              Len(PricedListings(all_listings))>>
            /\ year_range' = IF Years(all_listings) # <<>>
                             THEN <<MinYear(Years(all_listings)),
                                    MaxYear(Years(all_listings))>>
                             ELSE None
            /\ pc' = "cleanup"
            /\ UNCHANGED uncaught
    /\ UNCHANGED <<attempt, connect_raised, producer, kafka_producer, slept,
                   idx, processed, listings, all_listings, i, success_count,
                   sent, returns, last_outcome, last_return, batch_result,
                   flushes, client_calls, logged>>

\* main: "if kafka_producer: kafka_producer.close()", and close()
Cleanup ==
    /\ pc = "cleanup"
    /\ client_calls' = IF kafka_producer = "obj" /\ producer # "None"
                       THEN Append(client_calls, "close")
                       ELSE client_calls
    /\ pc' = "done"
    /\ UNCHANGED <<attempt, connect_raised, producer, kafka_producer, slept,
                   idx, processed, listings, all_listings, i, success_count,
                   sent, returns, last_outcome, last_return, batch_result,
                   flushes, logged, avg_price, year_range, uncaught>>

\* the fetcher's variables while the driver runs
FetchIdle ==
    /\ f_pc = "idle"
    /\ api_ok = TRUE
    /\ results = <<>>
    /\ max_results = 0
    /\ f_idx = 0
    /\ f_listings = <<>>
    /\ f_ret = None
    /\ f_errors = 0
    /\ d_ad = None
    /\ d_ret = None

Init == DriverInit /\ FetchIdle

Next ==
    \/ \E o \in ConnectOutcomes : ConnectAttempt(o) /\ UNCHANGED fetch_vars
    \/ \E b \in Batches(idx) : Search(b) /\ UNCHANGED fetch_vars
    \/ DryRun /\ UNCHANGED fetch_vars
    \/ SendBatchEnter /\ UNCHANGED fetch_vars
    \/ \E o \in SendOutcomes : SendListing(o) /\ UNCHANGED fetch_vars
    \/ Flush /\ UNCHANGED fetch_vars
    \/ Pace /\ UNCHANGED fetch_vars
    \/ Statistics /\ UNCHANGED fetch_vars
    \/ Cleanup /\ UNCHANGED fetch_vars

Spec == Init /\ [][Next]_vars

----------------------------------------------------------------------------
(* Statistics alone: main from "Scraping complete" on, over richer records *)

StatPrices == {None, Some(0), Some(50000), Some(100000)}

StatYears == {None, Some(2005), Some(2010)}

StatRecords == {Listing("1", p, y) : p \in StatPrices, y \in StatYears}

RECURSIVE SeqsUpTo(_, _)
\* the sequences over S of length at most n
SeqsUpTo(S, n) ==
    IF n = 0 THEN {<<>>}
    ELSE LET shorter == SeqsUpTo(S, n - 1)
         IN  shorter \cup {Append(q, x) : q \in shorter, x \in S}

\* main at "Scraping complete": the first profile returned every record
\* of all_listings and the other two returned nothing; either the publisher
\* connected at once and every send was acknowledged, or it never connected
StatsInit ==
    /\ pc = "stats"
    /\ all_listings \in SeqsUpTo(StatRecords, MaxStatRecords)
    /\ kafka_producer \in {"obj", "None"}
    /\ attempt = IF kafka_producer = "obj" THEN 1 ELSE max_retries
    /\ connect_raised = IF kafka_producer = "obj" THEN "none" ELSE "KafkaError"
    /\ producer = IF kafka_producer = "obj" THEN "client" ELSE "None"
    /\ slept = (IF kafka_producer = "obj" THEN <<>>
                ELSE [j \in 1..(max_retries - 1) |-> ConnectDelay])
               \o [j \in 1..NumProfiles |-> PaceDelay]
    /\ idx = NumProfiles + 1
    /\ processed = [j \in 1..NumProfiles |-> j]
    /\ listings = <<>>
    /\ i = 0
    /\ success_count = 0
    /\ sent = <<>>
    /\ returns = <<>>
    /\ last_outcome = "none"
    /\ last_return = "none"
    /\ batch_result = None
    /\ flushes = 0
    /\ client_calls = IF kafka_producer = "obj" /\ all_listings # <<>>
                      THEN [j \in 1..Len(all_listings) |-> "send"] \o <<"flush">>
                      ELSE <<>>
    /\ logged = IF kafka_producer = "None" /\ all_listings # <<>>
                THEN <<Preview(all_listings)>>
                ELSE <<>>
    /\ avg_price = None
    /\ year_range = None
    /\ uncaught = "none"
    /\ FetchIdle

StatsNext ==
    \/ Statistics /\ UNCHANGED fetch_vars
    \/ Cleanup /\ UNCHANGED fetch_vars

SpecStats == StatsInit /\ [][StatsNext]_vars

----------------------------------------------------------------------------
(* Fetcher: raw ads and normalization *)

\* main: max_results of the first and third profile
ProfileCap == 50
\* main: max_results of the second profile
ProfileCapLarge == 100

\* attribute values of a raw ad
Absent == [kind |-> "absent"]

PyNone == [kind |-> "none"]

PyStr(t) == [kind |-> "str", s |-> t]

PyInt(k) == [kind |-> "int", n |-> k]

PyDict(v) == [kind |-> "dict", value |-> v]

RawAd(id, price) == [ad_id |-> id, price |-> price]

\* str(x) of an attribute value that is present
Str(x) == CASE x.kind = "none" -> "None"
            [] x.kind = "str" -> x.s
            [] x.kind = "int" -> ToString(x.n)

\* whether evaluating the dict literal of _parse_ad / _parse_ad_details
\* raises: ad.ad_id of an ad without the attribute, .get of a price that is
\* no mapping
Raises(ad) == ad.ad_id.kind = "absent" \/ ad.price.kind \notin {"absent", "dict"}

\* getattr(ad, 'price', {}).get('value') if hasattr(ad, 'price') else None
PriceOf(ad) == IF ad.price.kind = "dict" THEN ad.price.value ELSE None

\* _parse_ad: <<>> for None, <<record>> for the listing
ParseAd(ad) ==
    IF Raises(ad) THEN None
    ELSE Some([listing_id |-> Str(ad.ad_id),
               price |-> PriceOf(ad),
               url |-> "https://www.blocket.se/" \o Str(ad.ad_id)])

\* _parse_ad_details: <<>> for None, <<record>> for the details
ParseAdDetails(ad) ==
    IF Raises(ad) THEN None
    ELSE Some([listing_id |-> Str(ad.ad_id),
               description |-> "",
               price |-> PriceOf(ad),
               url |-> "https://www.blocket.se/" \o Str(ad.ad_id)])

\* a loop that stops one ad late
CapReachedLate(n, cap) == n > cap

\* search_cars, "if idx >= max_results: break"
CapReached(n, cap) == n >= cap

\* a loop in which a failed ad discards what was collected
KeepListingOrReset(ls, r) == IF r # None THEN Append(ls, r[1]) ELSE <<>>

\* search_cars, "if listing: listings.append(listing)"
KeepListing(ls, r) == IF r # None THEN Append(ls, r[1]) ELSE ls

AdIds == {Absent, PyNone, PyStr(""), PyInt(101)}

AdPrices == {Absent, PyNone, PyDict(Some(50000))}

RawAds == {RawAd(a, p) : a \in AdIds, p \in AdPrices}

\* the long source answer: ScenarioAds ads with the ids 1, 2, ..., of which
\* the ad at position bad (if any) has no ad_id
ScenarioList(bad) ==
    [j \in 1..ScenarioAds |->
        RawAd(IF j = bad THEN Absent ELSE PyInt(j), PyDict(Some(1000 * j)))]

ScenarioLists ==
    {ScenarioList(bad) : bad \in {0, 1, ProfileCap, ProfileCap + 1}}

----------------------------------------------------------------------------
(* Fetcher: actions *)

\* a call of search_cars with some source answer and cap, or of
\* get_ad_details; the driver has not started
FetchInit ==
    /\ DriverInit
    /\ api_ok = TRUE
    /\ f_idx = 0
    /\ f_listings = <<>>
    /\ f_ret = None
    /\ f_errors = 0
    /\ d_ad = None
    /\ d_ret = None
    /\ \/ /\ f_pc = "call"
          /\ results \in SeqsUpTo(RawAds, MaxAds)
          /\ max_results \in 0..MaxAds
       \/ /\ f_pc = "call"
          /\ results \in ScenarioLists
          /\ max_results \in {ProfileCap, ProfileCapLarge}
       \/ /\ f_pc = "details"
          /\ results = <<>>
          /\ max_results = 0

\* search_cars: self.api.search_car(...), which returns the ads or raises;
\* the outer handler logs and returns []
ApiSearch(ok) ==
    /\ f_pc = "call"
    /\ api_ok' = ok
    /\ IF ok
       THEN /\ f_pc' = "loop"
            /\ UNCHANGED <<f_ret, f_errors>>
       ELSE /\ f_errors' = f_errors + 1
            /\ f_ret' = Some(<<>>)
            /\ f_pc' = "returned"
    /\ UNCHANGED <<results, max_results, f_idx, f_listings, d_ad, d_ret>>

\* search_cars: one iteration of "for idx, ad in enumerate(results)"
ParseNext ==
    /\ f_pc = "loop"
    /\ f_idx < Len(results)
    /\ ~CapReached(f_idx, max_results)
    /\ f_listings' = KeepListing(f_listings, ParseAd(results[f_idx + 1]))
    /\ f_errors' = IF ParseAd(results[f_idx + 1]) = None
                   THEN f_errors + 1 ELSE f_errors
    /\ f_idx' = f_idx + 1
    /\ UNCHANGED <<f_pc, api_ok, results, max_results, f_ret, d_ad, d_ret>>

\* search_cars: the loop ends (break or exhausted), return listings
ReturnListings ==
    /\ f_pc = "loop"
    /\ f_idx >= Len(results) \/ CapReached(f_idx, max_results)
    /\ f_ret' = Some(f_listings)
    /\ f_pc' = "returned"
    /\ UNCHANGED <<api_ok, results, max_results, f_idx, f_listings, f_errors,
                   d_ad, d_ret>>

\* get_ad_details: the lookup raises (found = <<>>) or returns an ad, which
\* _parse_ad_details normalizes
GetAdDetails(found) ==
    /\ f_pc = "details"
    /\ d_ad' = found
    /\ d_ret' = IF found = None THEN None ELSE ParseAdDetails(found[1])
    /\ f_errors' = IF found = None \/ ParseAdDetails(found[1]) = None
                   THEN f_errors + 1 ELSE f_errors
    /\ f_pc' = "detailed"
    /\ UNCHANGED <<api_ok, results, max_results, f_idx, f_listings, f_ret>>

FetchNext ==
    \/ \E ok \in BOOLEAN : ApiSearch(ok) /\ UNCHANGED drv_vars
    \/ ParseNext /\ UNCHANGED drv_vars
    \/ ReturnListings /\ UNCHANGED drv_vars
    \/ \E found \in {None} \cup {Some(ad) : ad \in RawAds} :
          GetAdDetails(found) /\ UNCHANGED drv_vars

SpecFetch == FetchInit /\ [][FetchNext]_vars

----------------------------------------------------------------------------
(* Claims about the publisher and the driver *)

LoopLeft == pc \in {"stats", "cleanup", "done", "crashed"}

AllProfiles == [j \in 1..3 |-> j]

Connected == kafka_producer = "obj"

DryRunMode == kafka_producer = "None"

RECURSIVE Flatten(_)
Flatten(ss) == IF ss = <<>> THEN <<>> ELSE Head(ss) \o Flatten(Tail(ss))

\* C1: send_listing never raises: whatever the log client does in send or in
\* the acknowledgment wait, it returns, False for every failure and True
\* only when the acknowledgment was received.
C1_SendNeverRaises ==
    last_outcome # "none" =>
        /\ last_return \in {"True", "False"}
        /\ last_return = "True" <=> last_outcome = "ok"

\* C2: send_batch attempts every record exactly once in list order whatever
\* earlier sends did, always returns, returns the number of sends that
\* returned True, and flushes exactly once, after the last send.
C2_SendBatchTallies ==
    /\ sent = [j \in 1..Len(sent) |-> listings[j].listing_id]
    /\ last_return # "raised"
    /\ (Connected /\ pc = "pace" /\ listings # <<>>) =>
          /\ Len(sent) = Len(listings)
          /\ batch_result = Some(Count(returns, TRUE))
          /\ flushes = 1
          /\ client_calls[Len(client_calls)] = "flush"

\* C3: against an unreachable log (every attempt fails with the log
\* client's error) construction makes exactly 3 attempts with a delay of 5
\* between consecutive attempts and then raises; there are never more than
\* 3 attempts; a successful attempt ends the retrying with the producer set.
C3_ConnectRetry ==
    /\ attempt <= 3
    /\ pc = "connect" => slept = [j \in 1..attempt |-> 5]
    /\ connect_raised = "KafkaError" =>
          /\ attempt = 3
          /\ SubSeq(slept, 1, 2) = <<5, 5>>
          /\ Count(slept, 5) = 2
          /\ producer = "None"
          /\ DryRunMode
    /\ producer = "client" =>
          /\ pc # "connect"
          /\ connect_raised = "none"
          /\ Connected
          /\ Count(slept, 5) = attempt - 1

C3_Witness ==
    /\ connect_raised = "KafkaError"
    /\ attempt = 3
    /\ pc = "search"
    /\ slept = <<5, 5>>

\* C4 as stated: in a dry run every profile is processed, every fetched
\* record is logged, and no call is ever made on a log client.
C4_DryRunLogsAll ==
    DryRunMode =>
        /\ client_calls = <<>>
        /\ LoopLeft => processed = AllProfiles
        /\ LoopLeft => Flatten(logged) = all_listings

\* C4 amended: in a dry run every profile is processed, of each non-empty
\* batch the first 3 records at most are logged (the whole batch only when
\* it has 3 records or fewer), and no call is ever made on a log client.
C4_DryRunPreview ==
    DryRunMode =>
        /\ client_calls = <<>>
        /\ LoopLeft => processed = AllProfiles
        /\ pc = "crashed" => uncaught = "ZeroDivisionError"
        /\ \A j \in 1..Len(logged) : Len(logged[j]) \in 1..3
        /\ (pc = "pace" /\ listings # <<>>) =>
              /\ logged # <<>>
              /\ LET shown == logged[Len(logged)]
                 IN  /\ Len(shown) = Min2(3, Len(listings))
                     /\ \A j \in 1..Len(shown) : shown[j] = listings[j]
        /\ LoopLeft => Len(Flatten(logged)) <= Len(all_listings)

C4_Witness ==
    /\ DryRunMode
    /\ pc = "done"
    /\ processed = AllProfiles
    /\ \E j \in 1..Len(logged) : Len(logged[j]) = 3
    /\ Len(Flatten(logged)) < Len(all_listings)

\* C5: an exception raised while a profile is fetched or published is
\* caught and the driver goes on, so every run processes every profile of
\* the list, in order.
C5_EveryProfileProcessed ==
    /\ uncaught # "OtherError"
    /\ LoopLeft => processed = AllProfiles

\* C9: in a connected run, once the last profile is processed the driver
\* reports the statistics and closes the publisher: when the run ends, close
\* was called exactly once, as the last call on the log client.
C9_ClosedOnce ==
    (Connected /\ processed = AllProfiles /\ pc \in {"done", "crashed"}) =>
        /\ Count(client_calls, "close") = 1
        /\ client_calls[Len(client_calls)] = "close"

----------------------------------------------------------------------------
(* Claims about the statistics *)

HasNonNullPrice(l) == l.price # None

NonNullPriced(ls) == SelectSeq(ls, HasNonNullPrice)

RECURSIVE NonNullYears(_)
NonNullYears(ls) ==
    IF ls = <<>> THEN <<>>
    ELSE (IF Head(ls).year # None THEN <<Head(ls).year[1]>> ELSE <<>>)
         \o NonNullYears(Tail(ls))

\* C10: the reported mean price is the sum of the non-null prices divided
\* by the number of records with a non-null price, and the year range is
\* the minimum and maximum of the non-null years.
C10_Statistics ==
    (pc \in {"cleanup", "done"} /\ all_listings # <<>>) =>
        /\ NonNullPriced(all_listings) # <<>> =>
              /\ avg_price # None
              /\ avg_price[1] * Len(NonNullPriced(all_listings))
                     = SumPrices(NonNullPriced(all_listings)) * avg_price[2]
        /\ NonNullYears(all_listings) # <<>> =>
              year_range = <<MinYear(NonNullYears(all_listings)),
                             MaxYear(NonNullYears(all_listings))>>

\* the scenario of the specification: prices 100000, null, 50000 and years
\* 2010, 2005, null give the mean 75000 and the range 2005 to 2010
C10_Scenario ==
    (/\ pc \in {"cleanup", "done"}
     /\ all_listings = <<Listing("1", Some(100000), Some(2010)),
                         Listing("1", None, Some(2005)),
                         Listing("1", Some(50000), None)>>) =>
        /\ avg_price[1] = 75000 * avg_price[2]
        /\ year_range = <<2005, 2010>>

----------------------------------------------------------------------------
(* Claims about the fetcher *)

SearchReturned == f_pc = "returned" /\ api_ok

\* the ads search_cars iterates over: the first max_results of the answer
Window == SubSeq(results, 1, Min2(max_results, Len(results)))

\* an ad whose normalization yields a record
Normalizes(ad) ==
    /\ ad.ad_id.kind \in {"none", "str", "int"}
    /\ ad.price.kind \in {"absent", "dict"}

\* the identifier text a record of the ad carries
IdText(ad) == IF ad.ad_id.kind = "int" THEN ToString(ad.ad_id.n)
              ELSE IF ad.ad_id.kind = "str" THEN ad.ad_id.s ELSE "None"

\* C6 as stated: search_cars returns at most max_results records, in source
\* order, and with max_results = 50 and 70 ads from the source exactly 50.
C6_CapExactly50Of70 ==
    SearchReturned =>
        /\ Len(f_ret[1]) <= max_results
        /\ (max_results = 50 /\ Len(results) = 70) =>
              /\ Len(f_ret[1]) = 50
              /\ \A j \in 1..50 : f_ret[1][j].listing_id = IdText(results[j])

\* C6 amended: search_cars returns at most max_results records; when each
\* of the first max_results ads normalizes, the result is those ads one for
\* one in source order (50 records for 70 ads and max_results = 50); an ad
\* among them that does not normalize is not replaced by a later ad.
C6_CapCountsRawAds ==
    SearchReturned =>
        /\ Len(f_ret[1]) <= max_results
        /\ Len(f_ret[1]) <= Len(Window)
        /\ (\A j \in 1..Len(Window) : Normalizes(Window[j])) =>
              /\ Len(f_ret[1]) = Len(Window)
              /\ \A j \in 1..Len(Window) :
                    f_ret[1][j].listing_id = IdText(results[j])
              /\ (max_results = 50 /\ Len(results) = 70) => Len(f_ret[1]) = 50
        /\ (\E j \in 1..Len(Window) : ~Normalizes(Window[j])) =>
              Len(f_ret[1]) < Len(Window)

C6_Witness ==
    /\ SearchReturned
    /\ max_results = 50
    /\ Len(results) = 70
    /\ Len(f_ret[1]) = 50
    /\ f_ret[1][50].listing_id = "50"

\* C7: an ad that fails to normalize is dropped alone: every other ad the
\* search iterates over that normalizes is in the result, in source order,
\* each failure is logged, and the search returns what it collected.
C7_FailureDropsOnlyThatAd ==
    SearchReturned =>
        LET kept == SelectSeq(Window, Normalizes)
        IN  /\ Len(f_ret[1]) = Len(kept)
            /\ \A j \in 1..Len(kept) :
                  /\ f_ret[1][j].listing_id = IdText(kept[j])
                  /\ f_ret[1][j].price = PriceOf(kept[j])
            /\ f_errors = Len(Window) - Len(kept)

C7_Witness ==
    /\ SearchReturned
    /\ Len(results) = 3
    /\ max_results = 3
    /\ Normalizes(results[1])
    /\ ~Normalizes(results[2])
    /\ Normalizes(results[3])
    /\ Len(f_ret[1]) = 2
    /\ f_errors = 1

\* an ad that carries no listing identifier
NoIdentifier(ad) == ad.ad_id.kind \in {"absent", "none"}

\* C8: every record the fetcher emits, on the summary and on the detail
\* path, has a non-empty listing_id, and an ad without a listing identifier
\* yields no record on either path.
C8_ListingIdNonEmpty ==
    /\ \A j \in 1..Len(f_listings) : f_listings[j].listing_id # ""
    /\ d_ret # None => d_ret[1].listing_id # ""
    /\ (d_ad # None /\ NoIdentifier(d_ad[1])) => d_ret = None
    /\ (SearchReturned /\ \A j \in 1..Len(Window) : NoIdentifier(Window[j])) =>
          f_ret[1] = <<>>

====
